---- MODULE Spec2Model ----
(***************************************************************************)
(* Model of the MCP client workflow engine (src/mcp/mcp-client/engine.py,  *)
(* services.py): session setup (WorkflowEngine.setup_services) and the     *)
(* multi-turn tool-calling loop (WorkflowEngine.process_user_query).       *)
(*                                                                         *)
(* Spec: one engine, one query.  SpecFair: the same, every awaited call    *)
(* completing.  SpecSession: several queries on one engine.  SpecRebuild:  *)
(* a second engine built from the same workflow.  SpecInterleaved: two     *)
(* calls switched at their awaits.  SpecListing: servers whose tool lists  *)
(* change after setup.  SpecCli: cli.main around the engine.               *)
(* SpecTranslate: LLMService._convert_mcp_tool_to_genai_function applied   *)
(* to one tool descriptor.                                                 *)
(*                                                                         *)
(* Strings are sequences of symbols: a one-character string per character  *)
(* and one symbol per bracketed marker.  "".join is concatenation and      *)
(* str.strip removes leading and trailing whitespace symbols.              *)
(***************************************************************************)
EXTENDS Integers, Sequences, FiniteSets, TLC

\* ------------------------------------------------------------------ bounds
\* largest max_conversation_turns a workflow is configured with
MaxTurns == 2
\* largest number of parts the model emits over all the turns of one query
MaxModelParts == 3
\* largest number of process_user_query calls made on one engine
MaxQueries == 2

VARIABLES
    mcp_servers_used,      \* workflow_config["mcp_servers_used"]
    max_turns,             \* workflow_config["max_conversation_turns"]
    mcp_services,          \* self.mcp_services: server names in dict insertion order
    all_mcp_tools,         \* self.all_mcp_tools: [server, name] descriptors in order
    setup_state,           \* "not_called" | "running" | "ok" | "failed"
    setup_idx,             \* position of setup_services in mcp_servers_used
    pc,                    \* "idle" | "await_llm" | "resolve" | "call_tool" | "returned" | "raised"
    turn,                  \* loop variable of `for turn in range(max_turns)`
    conversation_history,  \* local conversation_history
    final_response_parts,  \* local final_response_parts
    llm_tool_config,       \* local llm_tool_config: NoneConfig or the declared tool names
    tool_name,             \* local tool_name of the function call being serviced
    resolve_idx,           \* position of the resolution loop in mcp_services.items()
    found_service_for_tool,\* local found_service_for_tool (NoService when None)
    result,                \* the string process_user_query returned
    llm_calls,             \* number of generate_response calls of the query
    tool_calls,            \* call_tool invocations of the query and what they returned, in order
    llm_failed,            \* a generate_response call of the query raised
    conditions,            \* error conditions the query ran into: [kind, turn, tool]
    setup_failed_at,       \* position in mcp_servers_used of the server whose setup raised (0: none)
    user_query,            \* the argument of the running process_user_query call
    query_no,              \* number of process_user_query calls made on the engine
    prior_llm_failure,     \* an earlier query of the engine ended in an LLM failure
    engine_no,             \* which WorkflowEngine built from the configuration is alive
    resolved,              \* per engine and tool name, the outcomes of the resolutions made
    mcp_tool,              \* the descriptor given to _convert_mcp_tool_to_genai_function
    declaration,           \* what _convert_mcp_tool_to_genai_function did with it
    listing,               \* per server, the tools its session.list_tools() answers now
    suspended,             \* the locals of the other process_user_query call, waiting at an await
    exit_stack,            \* self.exit_stack: the servers whose connection contexts it holds
    cli_pc,                \* where cli.main stands: "constructed" | "single" | "chat" | "finally" | "done"
    close_calls            \* number of engine.close() calls cli.main has made

vars == <<mcp_servers_used, max_turns, mcp_services, all_mcp_tools, setup_state,
          setup_idx, pc, turn, conversation_history, final_response_parts,
          llm_tool_config, tool_name, resolve_idx, found_service_for_tool,
          result, llm_calls, tool_calls, llm_failed, conditions, setup_failed_at,
          user_query, query_no, prior_llm_failure, engine_no, resolved, mcp_tool,
          declaration, listing, suspended, exit_stack, cli_pc, close_calls>>

\* ------------------------------------------------------------ environment
Servers == {"s1", "s2"}
ToolNames == {"t1", "t2"}
NoService == "None"
\* prepare_tools_for_llm returning None: no declarations (services.py 121-123,
\* 137-139; a configuration it returns holds at least one declaration)
NoneConfig == <<>>

\* the tools each backend server lists (session.list_tools) when the engine
\* is built: t1 is declared by both servers, t2 only by s2
ServerToolList(s) == IF s = "s1" THEN <<"t1">> ELSE <<"t1", "t2">>

\* the server lists a workflow may name
ServerLists == {<<>>, <<"s1">>, <<"s2">>, <<"s1", "s2">>, <<"s2", "s1">>}

\* ---------------------------------------------------------------- strings
Whitespace == {" ", "\n"}

\* p.strip() is empty
IsBlank(s) == \A i \in 1..Len(s) : s[i] \in Whitespace

RECURSIVE LStrip(_)
LStrip(s) == IF s # <<>> /\ Head(s) \in Whitespace THEN LStrip(Tail(s)) ELSE s

RECURSIVE RStrip(_)
RStrip(s) == IF s # <<>> /\ s[Len(s)] \in Whitespace
             THEN RStrip(SubSeq(s, 1, Len(s) - 1)) ELSE s

\* str.strip()
Strip(s) == RStrip(LStrip(s))

\* "".join(parts)
RECURSIVE Join(_)
Join(parts) == IF parts = <<>> THEN <<>> ELSE Head(parts) \o Join(Tail(parts))

\* any(p.strip() for p in parts)
AnyNonBlank(parts) == \E i \in 1..Len(parts) : ~IsBlank(parts[i])

\* the text a model part may carry: blank, plain, and with leading whitespace
TextValues == {<<" ">>, <<"a">>, <<" ", "a">>}

\* ---------------------------------------------------------------- markers
LLMErrorMarker == "[Error communicating with LLM in workflow]"
NoCandidatesMarker == "[AI model returned no response candidates.]"
NoTextMarker == "[AI model provided no further text or actions.]"
MaxTurnsNoTextMarker == "[Max interaction turns reached. No final text generated.]"
MaxTurnsMarker == "[Max interaction turns reached.]"
\* engine.py 151 and 146: the user-facing log lines of the tool errors
ToolNotFoundMarker == "[Tool not found.]"
ToolErrorMarker == "[Error calling tool]"
NotInitialized == <<"Error: Workflow services are not initialized.">>

\* ------------------------------------------------------------------ turns
NoPayload == [keys |-> {}, value |-> "none"]

TextPart(s) == [kind |-> "text", text |-> s, name |-> "", response |-> NoPayload]
FunctionCallPart(n) == [kind |-> "function_call", text |-> <<>>, name |-> n,
                        response |-> NoPayload]
\* genai_types.Part.from_function_response(name=..., response=...)
FunctionResponsePart(n, payload) ==
    [kind |-> "function_response", text |-> <<>>, name |-> n, response |-> payload]

Content(r, ps) == [role |-> r, parts |-> ps]

\* initial_prompt_template.format(query=user_query)
InitialPrompt(q) == <<"P", q>>

\* ------------------------------------------------------- tool results
\* what session.call_tool may hand back: a string, a mapping, anything else
ToolResults == {"str", "dict", "other"}

\* engine.py 138-141: a dict is passed through, anything else is put under "output"
WrapResult(r) == IF r = "dict" THEN [keys |-> {"data"}, value |-> "dict"]
                 ELSE [keys |-> {"output"}, value |-> r]

\* engine.py 147: the payload of a failed call_tool
ToolErrorPayload == [keys |-> {"error", "details"}, value |-> "error_msg"]

\* variant: the not-found message wrapped like a tool output
NotFoundPayloadAsOutput == [keys |-> {"output"}, value |-> "error_msg"]

\* engine.py 152: the payload when no service has the tool
NotFoundPayload == [keys |-> {"error"}, value |-> "error_msg"]

\* variant: the function_response named after a fixed tool, not the requested one
ToolResponseContentFixedName(n, payload) ==
    Content("user", <<FunctionResponsePart("t1", payload)>>)

\* engine.py 154-158: the user turn carrying the function_response
ToolResponseContent(n, payload) == Content("user", <<FunctionResponsePart(n, payload)>>)

\* ---------------------------------------------------- scanning a model turn
IsFunctionCall(p) == p.kind = "function_call"

\* index of the part whose function_call is serviced (0: none)
FirstFunctionCall(parts) ==
    IF \E i \in 1..Len(parts) : IsFunctionCall(parts[i])
    THEN CHOOSE i \in 1..Len(parts) :
            /\ IsFunctionCall(parts[i])
            /\ \A j \in 1..(i - 1) : ~IsFunctionCall(parts[j])
    ELSE 0

\* the parts the scan of engine.py 102-159 visits: up to and including the
\* first function_call, all of them when there is none
ScannedParts(parts) ==
    IF FirstFunctionCall(parts) = 0 THEN parts
    ELSE SubSeq(parts, 1, FirstFunctionCall(parts))

\* engine.py 104-108: keep part.text when it is non-empty and not blank
RECURSIVE KeptTexts(_)
KeptTexts(parts) ==
    IF parts = <<>> THEN <<>>
    ELSE IF Head(parts).kind = "text" /\ Head(parts).text # <<>> /\ ~IsBlank(Head(parts).text)
         THEN <<Head(parts).text>> \o KeptTexts(Tail(parts))
         ELSE KeptTexts(Tail(parts))

\* text_from_llm_this_turn when the scan ends
TextFromLLMThisTurn(parts) == KeptTexts(ScannedParts(parts))

\* llm_response.text: the text parts of the first candidate, concatenated
RECURSIVE ResponseText(_)
ResponseText(parts) ==
    IF parts = <<>> THEN <<>>
    ELSE (IF Head(parts).kind = "text" THEN Head(parts).text ELSE <<>>)
         \o ResponseText(Tail(parts))

\* variant: a turn without text and without function call adds no marker
TerminalPartsNoMarker(frp, parts) ==
    LET texts == TextFromLLMThisTurn(parts)
    IN IF texts # <<>> THEN frp \o texts
       ELSE IF ~AnyNonBlank(frp) /\ ResponseText(parts) # <<>>
               /\ ~IsBlank(ResponseText(parts))
            THEN Append(frp, ResponseText(parts))
            ELSE frp

\* engine.py 161-171: the answer parts after a turn without function call
TerminalParts(frp, parts) ==
    LET texts == TextFromLLMThisTurn(parts)
        frp1 == IF texts # <<>> THEN frp \o texts
                ELSE IF ~AnyNonBlank(frp) /\ ResponseText(parts) # <<>>
                        /\ ~IsBlank(ResponseText(parts))
                     THEN Append(frp, ResponseText(parts))
                     ELSE frp
    IN IF frp1 = <<>> \/ ~AnyNonBlank(frp1)
       THEN Append(frp1, <<NoTextMarker>>)
       ELSE frp1

\* variant: the loop running out of turns adds nothing to the answer
MaxTurnsPartsNoMarker(frp) == frp

\* engine.py 174-179: the else branch of the for loop
MaxTurnsParts(frp) ==
    IF ~AnyNonBlank(frp) THEN Append(frp, <<"\n", MaxTurnsNoTextMarker>>)
    ELSE Append(frp, <<"\n", MaxTurnsMarker>>)

\* variant: the joined answer returned without strip()
FinalTextOutputNoStrip(frp) == Join(frp)

\* engine.py 181: "".join(final_response_parts).strip()
FinalTextOutput(frp) == Strip(Join(frp))

\* variant: the loop bound taken inclusively
InRangeInclusive(t) == t <= max_turns

\* engine.py 76: range(max_turns) still has the index t
InRange(t) == t < max_turns

\* services.py 120-143: None without tools, else one declaration per named tool
PrepareToolsForLLM(tools) ==
    IF tools = <<>> THEN NoneConfig
    ELSE [i \in 1..Len(tools) |-> tools[i].name]

\* the parts of model turns already in the conversation
RECURSIVE ModelPartsUsed(_)
ModelPartsUsed(h) ==
    IF h = <<>> THEN 0
    ELSE (IF Head(h).role = "model" THEN Len(Head(h).parts) ELSE 0)
         + ModelPartsUsed(Tail(h))

PartValues == {TextPart(s) : s \in TextValues} \cup {FunctionCallPart(n) : n \in ToolNames}

\* the part sequences of length at most n
RECURSIVE PartSeqs(_)
PartSeqs(n) ==
    IF n <= 0 THEN {<<>>}
    ELSE PartSeqs(n - 1) \cup
         {Append(ps, p) : ps \in {x \in PartSeqs(n - 1) : Len(x) = n - 1}, p \in PartValues}

\* an error condition met in loop iteration t while servicing tool n
Condition(k, t, n) == [kind |-> k, turn |-> t, tool |-> n]

\* the user queries
Queries == {"q"}

\* no descriptor under translation, nothing translated
NoTool == [tag |-> "none"]
NoDeclaration == [tag |-> "none"]

\* ------------------------------------------------------ schema translation
\* a JSON value as the translator tells values apart: its kind ("str",
\* "dict", "list", "null", "int", or "absent" for a missing key) and the text
\* it carries (for the object under "items", the text of its "type")
Json(k, v) == [kind |-> k, val |-> v]
Absent == Json("absent", "")

\* services.py 87: valid_types
ValidTypes == {"string", "number", "integer", "boolean", "array", "object"}

\* str.lower() on the type names a schema may carry
Lower(t) == CASE t = "ARRAY" -> "array"
              [] t = "Integer" -> "integer"
              [] OTHER -> t

\* what a property's "type" may be: missing, one of the six kinds in any
\* letter case, another name, a list of names (["string", "null"]), null
TypeValues ==
    {Absent, Json("list", ""), Json("null", "")}
    \cup {Json("str", t) : t \in ValidTypes \cup {"ARRAY", "Integer", "float", "null"}}

\* what a property's "items" may be: missing, an object, a bare type name, a list
ItemsValues == {Absent, Json("dict", "number"), Json("str", "string"), Json("list", "")}

\* a property entry that is an object
PropertySchema(t, i, d, e) ==
    [kind |-> "dict", type |-> t, items |-> i, description |-> d, enum |-> e]

\* a property entry that is not an object (a bare string)
NonObjectProperty ==
    [kind |-> "str", type |-> Absent, items |-> Absent, description |-> Absent,
     enum |-> Absent]

\* the entries the first parameter of a schema may have
PropertySchemas ==
    {NonObjectProperty}
    \cup {PropertySchema(t, i, d, e) :
            t \in TypeValues, i \in ItemsValues,
            d \in {Absent, Json("str", "pd")},
            e \in {Absent, Json("list", "e"), Json("str", "e")}}

\* the entries parameters may have in a schema of two parameters
FewPropertySchemas ==
    {NonObjectProperty,
     PropertySchema(Json("str", "array"), Absent, Absent, Absent),
     PropertySchema(Json("str", "Integer"), Absent, Json("str", "pd"), Absent),
     PropertySchema(Json("list", ""), Absent, Absent, Absent)}

Property(n, sp) == [name |-> n, schema |-> sp]

\* what "properties" may be: missing, null, a list, an object of one or two
\* parameters in the order of its keys
PropertiesValues ==
    {[kind |-> k, entries |-> <<>>] : k \in {"absent", "null", "list", "dict"}}
    \cup {[kind |-> "dict", entries |-> <<Property("p", sp)>>] : sp \in PropertySchemas}
    \cup {[kind |-> "dict", entries |-> <<Property("p", sp), Property("q", sq)>>] :
            sp \in FewPropertySchemas, sq \in FewPropertySchemas}

\* what "required" may be: missing, a list of names (empty or not), a list
\* with a member that is no string, a bare string
RequiredValues ==
    {[kind |-> "absent", names |-> <<>>],
     [kind |-> "list", names |-> <<>>],
     [kind |-> "list", names |-> <<Json("str", "p")>>],
     [kind |-> "list", names |-> <<Json("str", "p"), Json("int", "")>>],
     [kind |-> "str", names |-> <<>>]}

\* Tool.inputSchema: no schema, or an object with or without a "type" key
InputSchemas ==
    {[kind |-> "null", typed |-> FALSE, properties |-> [kind |-> "absent", entries |-> <<>>],
      required |-> [kind |-> "absent", names |-> <<>>]]}
    \cup {[kind |-> "dict", typed |-> ty, properties |-> ps, required |-> rq] :
            ty \in BOOLEAN, ps \in PropertiesValues, rq \in RequiredValues}

\* Tool.description: None, or a string (empty, blank, plain, with leading blank)
Descriptions ==
    {[kind |-> "null", val |-> <<>>]}
    \cup {[kind |-> "str", val |-> v] : v \in {<<>>, <<" ">>, <<"d">>, <<" ", "d">>}}

\* the tool descriptors a server may list
ToolDescriptors ==
    {[tag |-> "tool", name |-> "t1", description |-> d, inputSchema |-> sc] :
        d \in Descriptions, sc \in InputSchemas}

\* services.py 80: the schema is a non-empty dict
SchemaGiven(sc) ==
    /\ sc.kind = "dict"
    /\ (sc.typed \/ sc.properties.kind # "absent" \/ sc.required.kind # "absent")

\* services.py 86: schema_prop.get("type", "string").lower() raises
\* AttributeError when the value under "type" is no string
TypeRaises(sp) == sp.type.kind \notin {"absent", "str"}

\* services.py 86-90: the translated type of a property
TranslatedType(sp) ==
    LET prop_type_str == IF sp.type.kind = "absent" THEN "string" ELSE Lower(sp.type.val)
    IN IF prop_type_str \notin ValidTypes THEN "string" ELSE prop_type_str

\* the items schema {"type": "string"}
StringItems == Json("dict", "string")

\* services.py 97-98: schema_prop.get("items", {"type": "string"}) for an
\* array, no "items" key otherwise
TranslatedItems(sp) ==
    IF TranslatedType(sp) = "array"
    THEN (IF sp.items.kind = "absent" THEN StringItems ELSE sp.items)
    ELSE Absent

\* services.py 92-101: current_prop_schema
TranslatedProperty(sp) ==
    [type |-> TranslatedType(sp),
     description |-> sp.description,
     enum |-> IF sp.enum.kind = "list" THEN sp.enum ELSE Absent,
     items |-> TranslatedItems(sp)]

\* services.py 82-101: genai_properties, the entries that are no objects skipped
RECURSIVE TranslatedProperties(_)
TranslatedProperties(entries) ==
    IF entries = <<>> THEN <<>>
    ELSE IF Head(entries).schema.kind # "dict"
         THEN TranslatedProperties(Tail(entries))
         ELSE <<Property(Head(entries).name, TranslatedProperty(Head(entries).schema))>>
              \o TranslatedProperties(Tail(entries))

\* services.py 82, 86: .items() on a "properties" that is no dict, or .lower()
\* on a "type" that is no string, raises
ConversionRaises(sc) ==
    \/ sc.properties.kind \in {"null", "list"}
    \/ \E i \in 1..Len(sc.properties.entries) :
          /\ sc.properties.entries[i].schema.kind = "dict"
          /\ TypeRaises(sc.properties.entries[i].schema)

\* variant: "required" copied whenever it is a non-empty list, whatever its members
TranslatedRequiredAnyList(rq) ==
    IF rq.kind = "list" /\ rq.names # <<>> THEN rq
    ELSE [kind |-> "absent", names |-> <<>>]

\* services.py 103-105: "required" is copied when it is a non-empty list of strings
TranslatedRequired(rq) ==
    IF rq.kind = "list" /\ rq.names # <<>>
       /\ \A i \in 1..Len(rq.names) : rq.names[i].kind = "str"
    THEN rq
    ELSE [kind |-> "absent", names |-> <<>>]

\* services.py 79-107: parameters_schema
TranslatedParameters(sc) ==
    IF SchemaGiven(sc)
    THEN [properties |-> TranslatedProperties(sc.properties.entries),
          required |-> TranslatedRequired(sc.required)]
    ELSE [properties |-> <<>>, required |-> [kind |-> "absent", names |-> <<>>]]

\* services.py 111: f"Tool to perform {mcp_tool.name}"
DefaultDescription(n) == <<"Tool to perform ", n>>

\* variant: the default taken for a missing or empty description only
TranslatedDescriptionNoStrip(t) ==
    IF t.description.kind # "str" \/ t.description.val = <<>>
    THEN DefaultDescription(t.name)
    ELSE t.description.val

\* services.py 109-112: the description, or the default when it is None,
\* empty or blank
TranslatedDescription(t) ==
    IF t.description.kind # "str" \/ t.description.val = <<>>
       \/ Strip(t.description.val) = <<>>
    THEN DefaultDescription(t.name)
    ELSE t.description.val

\* services.py 77-118: the declaration returned, or the exception raised
ConvertMcpToolToGenaiFunction(t) ==
    IF SchemaGiven(t.inputSchema) /\ ConversionRaises(t.inputSchema)
    THEN [tag |-> "raised", name |-> t.name, description |-> <<>>,
          parameters |-> [properties |-> <<>>,
                          required |-> [kind |-> "absent", names |-> <<>>]]]
    ELSE [tag |-> "decl", name |-> t.name, description |-> TranslatedDescription(t),
          parameters |-> TranslatedParameters(t.inputSchema)]

\* the locals of a process_user_query call that has not started
NotStarted ==
    [pc |-> "idle", turn |-> 0, conversation_history |-> <<>>,
     final_response_parts |-> <<>>, llm_tool_config |-> NoneConfig, tool_name |-> "",
     resolve_idx |-> 0, found_service_for_tool |-> NoService, result |-> <<>>,
     llm_calls |-> 0, tool_calls |-> <<>>, llm_failed |-> FALSE, conditions |-> {},
     user_query |-> ""]

\* ------------------------------------------------------------------- Init
\* WorkflowEngine.__init__ for a workflow the configuration holds
Init ==
    /\ mcp_servers_used \in ServerLists
    /\ max_turns \in 0..MaxTurns
    /\ mcp_services = <<>>
    /\ all_mcp_tools = <<>>
    /\ setup_state = "not_called"
    /\ setup_idx = 1
    /\ pc = "idle"
    /\ turn = 0
    /\ conversation_history = <<>>
    /\ final_response_parts = <<>>
    /\ llm_tool_config = NoneConfig
    /\ tool_name = ""
    /\ resolve_idx = 0
    /\ found_service_for_tool = NoService
    /\ result = <<>>
    /\ llm_calls = 0
    /\ tool_calls = <<>>
    /\ llm_failed = FALSE
    /\ conditions = {}
    /\ setup_failed_at = 0
    /\ user_query = ""
    /\ query_no = 0
    /\ prior_llm_failure = FALSE
    /\ engine_no = 1
    /\ resolved = [e \in 1..2 |-> [n \in ToolNames |-> {}]]
    /\ listing = [s \in Servers |-> ServerToolList(s)]
    /\ suspended = NotStarted
    /\ exit_stack = <<>>
    /\ cli_pc = "constructed"
    /\ close_calls = 0
    /\ mcp_tool = NoTool
    /\ declaration = NoDeclaration

configVars == <<mcp_servers_used, max_turns>>
engineVars == <<mcp_services, all_mcp_tools, setup_state, setup_idx, setup_failed_at,
                exit_stack>>
\* what a call of process_user_query is given and what is known of earlier calls
callVars == <<user_query, query_no, prior_llm_failure>>
\* which engine is alive, the translator's input and output, the servers'
\* listings, the call that is not running, and the command line around the engine
outerVars == <<engine_no, mcp_tool, declaration, listing, suspended, cli_pc, close_calls>>
queryVars == <<pc, turn, conversation_history, final_response_parts, llm_tool_config,
               tool_name, resolve_idx, found_service_for_tool, result, llm_calls,
               tool_calls, llm_failed, conditions>>

\* --------------------------------------------------------- setup_services
SetupPending == pc = "idle" /\ setup_state \in {"not_called", "running"}

\* the descriptors a server's get_tools returns
ToolsOf(s) == [i \in 1..Len(listing[s]) |-> [server |-> s, name |-> listing[s][i]]]

\* engine.py 36-38, 54-56: no servers to set up
SetupNoServers ==
    /\ SetupPending
    /\ mcp_servers_used = <<>>
    /\ setup_state = "not_called"
    /\ setup_state' = "ok"
    /\ UNCHANGED <<configVars, outerVars, callVars, resolved, mcp_services, all_mcp_tools,
                   setup_idx, setup_failed_at, exit_stack, queryVars>>

\* engine.py 40-49: connect() and get_tools() of the next server succeed
SetupService ==
    /\ SetupPending
    /\ setup_idx <= Len(mcp_servers_used)
    /\ exit_stack' = Append(exit_stack, mcp_servers_used[setup_idx])
    /\ mcp_services' = Append(mcp_services, mcp_servers_used[setup_idx])
    /\ all_mcp_tools' = all_mcp_tools \o ToolsOf(mcp_servers_used[setup_idx])
    /\ setup_idx' = setup_idx + 1
    /\ setup_state' = IF setup_idx = Len(mcp_servers_used) THEN "ok" ELSE "running"
    /\ UNCHANGED <<configVars, outerVars, callVars, resolved, setup_failed_at, queryVars>>

\* variant: the failure of connect() is logged and setup goes on with the
\* next server
SetupConnectRaisesSwallowed ==
    /\ SetupPending
    /\ setup_idx <= Len(mcp_servers_used)
    /\ setup_idx' = setup_idx + 1
    /\ setup_state' = IF setup_idx = Len(mcp_servers_used) THEN "ok" ELSE "running"
    /\ setup_failed_at' = setup_idx
    /\ UNCHANGED <<configVars, outerVars, callVars, resolved, mcp_services, all_mcp_tools,
                   exit_stack, queryVars>>

\* engine.py 44, 50-52 (services.py 32, 38-40): connect() raises before a
\* context is entered, setup re-raises
SetupConnectRaises ==
    /\ SetupPending
    /\ setup_idx <= Len(mcp_servers_used)
    /\ setup_state' = "failed"
    /\ setup_failed_at' = setup_idx
    /\ UNCHANGED <<configVars, outerVars, callVars, resolved, mcp_services, all_mcp_tools,
                   setup_idx, exit_stack, queryVars>>

\* engine.py 44, 50-52 (services.py 32-40): connect() enters the transport's
\* context, then the session's initialize() or get_tools() raises, setup re-raises
SetupInitializeRaises ==
    /\ SetupPending
    /\ setup_idx <= Len(mcp_servers_used)
    /\ exit_stack' = Append(exit_stack, mcp_servers_used[setup_idx])
    /\ setup_state' = "failed"
    /\ setup_failed_at' = setup_idx
    /\ UNCHANGED <<configVars, outerVars, callVars, resolved, mcp_services, all_mcp_tools,
                   setup_idx, queryVars>>

\* engine.py 45-46, 50-52: the server is registered, then get_tools() raises
SetupGetToolsRaises ==
    /\ SetupPending
    /\ setup_idx <= Len(mcp_servers_used)
    /\ exit_stack' = Append(exit_stack, mcp_servers_used[setup_idx])
    /\ mcp_services' = Append(mcp_services, mcp_servers_used[setup_idx])
    /\ setup_state' = "failed"
    /\ setup_failed_at' = setup_idx
    /\ UNCHANGED <<configVars, outerVars, callVars, resolved, all_mcp_tools, setup_idx,
                   queryVars>>

\* ----------------------------------------------------- process_user_query
\* engine.py 174-183: the loop ran out of turns
ReturnMaxTurns ==
    /\ pc' = "returned"
    /\ final_response_parts' = MaxTurnsParts(final_response_parts)
    /\ result' = FinalTextOutput(MaxTurnsParts(final_response_parts))
    /\ UNCHANGED turn

\* variant: the loop goes on without the function_response in the history
ToolTurnDoneNoAppend(h, n, payload) ==
    /\ conversation_history' = h
    /\ IF InRange(turn + 1)
       THEN /\ pc' = "await_llm"
            /\ turn' = turn + 1
            /\ UNCHANGED <<final_response_parts, result>>
       ELSE ReturnMaxTurns

\* variant: the function_response put in the place of the last turn of h
ToolTurnDoneReplaces(h, n, payload) ==
    /\ conversation_history' =
           Append(SubSeq(h, 1, Len(h) - 1), ToolResponseContent(n, payload))
    /\ IF InRange(turn + 1)
       THEN /\ pc' = "await_llm"
            /\ turn' = turn + 1
            /\ UNCHANGED <<final_response_parts, result>>
       ELSE ReturnMaxTurns

\* engine.py 154-159 and the loop head 76: the function_response is appended
\* to history h and the loop goes to its next iteration or runs out
ToolTurnDone(h, n, payload) ==
    /\ conversation_history' = Append(h, ToolResponseContent(n, payload))
    /\ IF InRange(turn + 1)
       THEN /\ pc' = "await_llm"
            /\ turn' = turn + 1
            /\ UNCHANGED <<final_response_parts, result>>
       ELSE ReturnMaxTurns

\* the resolution's answer when no service has the tool
NotFound == "NOT_FOUND"

\* the resolutions made so far, with the outcome o for tool n added for the
\* engine alive when its services were all set up
Resolved(n, o) ==
    IF setup_state = "ok"
    THEN [resolved EXCEPT ![engine_no][n] = @ \cup {o}]
    ELSE resolved

\* variant: the conversation kept on the engine and appended to, not rebuilt
InitialHistoryKept(q) ==
    Append(conversation_history, Content("user", <<TextPart(InitialPrompt(q))>>))

\* variant: the conversation started with the prompt in two user turns
InitialHistoryTwoTurns(q) ==
    <<Content("user", <<TextPart(<<"P">>)>>), Content("user", <<TextPart(<<q>>)>>)>>

\* engine.py 67-69: the conversation a call starts with
InitialHistory(q) == <<Content("user", <<TextPart(InitialPrompt(q))>>)>>

\* variant: a call that does not look whether the services were set up
BeginQueryNoGuard(q) ==
    /\ setup_state # "running"
    /\ user_query' = q
    /\ query_no' = query_no + 1
    /\ prior_llm_failure' = (prior_llm_failure \/ llm_failed)
    /\ turn' = 0
    /\ tool_name' = ""
    /\ resolve_idx' = 0
    /\ found_service_for_tool' = NoService
    /\ llm_calls' = 0
    /\ tool_calls' = <<>>
    /\ llm_failed' = FALSE
    /\ conditions' = {}
    /\ conversation_history' = InitialHistory(q)
    /\ llm_tool_config' = PrepareToolsForLLM(all_mcp_tools)
    /\ IF InRange(0)
       THEN /\ pc' = "await_llm"
            /\ final_response_parts' = <<>>
            /\ result' = <<>>
       ELSE /\ pc' = "returned"
            /\ final_response_parts' = MaxTurnsParts(<<>>)
            /\ result' = FinalTextOutput(MaxTurnsParts(<<>>))
    /\ UNCHANGED <<configVars, outerVars, engineVars, resolved>>

\* engine.py 59-76: a call with fresh locals, up to its first await
BeginQuery(q) ==
    /\ setup_state # "running"
    /\ user_query' = q
    /\ query_no' = query_no + 1
    /\ prior_llm_failure' = (prior_llm_failure \/ llm_failed)
    /\ turn' = 0
    /\ tool_name' = ""
    /\ resolve_idx' = 0
    /\ found_service_for_tool' = NoService
    /\ llm_calls' = 0
    /\ tool_calls' = <<>>
    /\ llm_failed' = FALSE
    /\ conditions' = {}
    /\ IF mcp_services = <<>> /\ mcp_servers_used # <<>>
       THEN /\ pc' = "returned"
            /\ result' = NotInitialized
            /\ conversation_history' = <<>>
            /\ final_response_parts' = <<>>
            /\ llm_tool_config' = NoneConfig
       ELSE /\ conversation_history' = InitialHistory(q)
            /\ llm_tool_config' = PrepareToolsForLLM(all_mcp_tools)
            /\ IF InRange(0)
               THEN /\ pc' = "await_llm"
                    /\ final_response_parts' = <<>>
                    /\ result' = <<>>
               ELSE /\ pc' = "returned"
                    /\ final_response_parts' = MaxTurnsParts(<<>>)
                    /\ result' = FinalTextOutput(MaxTurnsParts(<<>>))
    /\ UNCHANGED <<configVars, outerVars, engineVars, resolved>>

\* the first call of process_user_query on the engine
StartQuery(q) ==
    /\ pc = "idle"
    /\ BeginQuery(q)

\* a further call of process_user_query once the previous one is over
NextQuery(q) ==
    /\ pc \in {"returned", "raised"}
    /\ query_no < MaxQueries
    /\ BeginQuery(q)

\* variant: the error marker is appended but the loop goes on (continue for break)
LLMRaisesContinue ==
    /\ pc = "await_llm"
    /\ llm_calls' = llm_calls + 1
    /\ llm_failed' = TRUE
    /\ conditions' = conditions \cup {Condition("llm_failed", turn, "")}
    /\ IF InRange(turn + 1)
       THEN /\ pc' = "await_llm"
            /\ turn' = turn + 1
            /\ final_response_parts' = Append(final_response_parts, <<"\n", LLMErrorMarker>>)
            /\ UNCHANGED result
       ELSE /\ pc' = "returned"
            /\ final_response_parts' = Append(final_response_parts, <<"\n", LLMErrorMarker>>)
            /\ result' = FinalTextOutput(final_response_parts')
            /\ UNCHANGED turn
    /\ UNCHANGED <<configVars, outerVars, callVars, resolved, engineVars,
                   conversation_history, llm_tool_config,
                   tool_name, resolve_idx, found_service_for_tool, tool_calls>>

\* variant: a failed LLM call also drops the engine's services and tools
LLMRaisesClosesServices ==
    /\ pc = "await_llm"
    /\ llm_calls' = llm_calls + 1
    /\ llm_failed' = TRUE
    /\ conditions' = conditions \cup {Condition("llm_failed", turn, "")}
    /\ final_response_parts' = Append(final_response_parts, <<"\n", LLMErrorMarker>>)
    /\ pc' = "returned"
    /\ result' = FinalTextOutput(final_response_parts')
    /\ mcp_services' = <<>>
    /\ all_mcp_tools' = <<>>
    /\ UNCHANGED <<configVars, outerVars, callVars, resolved, setup_state, setup_idx,
                   setup_failed_at, exit_stack, turn, conversation_history, llm_tool_config,
                   tool_name, resolve_idx, found_service_for_tool, tool_calls>>

\* engine.py 80-87, 181-183: generate_response raises
LLMRaises ==
    /\ pc = "await_llm"
    /\ llm_calls' = llm_calls + 1
    /\ llm_failed' = TRUE
    /\ conditions' = conditions \cup {Condition("llm_failed", turn, "")}
    /\ final_response_parts' = Append(final_response_parts, <<"\n", LLMErrorMarker>>)
    /\ pc' = "returned"
    /\ result' = FinalTextOutput(final_response_parts')
    /\ UNCHANGED <<configVars, outerVars, callVars, resolved, engineVars,
                   turn, conversation_history, llm_tool_config,
                   tool_name, resolve_idx, found_service_for_tool, tool_calls>>

\* variant: the empty response is appended to the history as a model turn
LLMNoCandidatesAppended ==
    /\ pc = "await_llm"
    /\ llm_calls' = llm_calls + 1
    /\ conditions' = conditions \cup {Condition("no_candidates", turn, "")}
    /\ conversation_history' = Append(conversation_history, Content("model", <<>>))
    /\ final_response_parts' = Append(final_response_parts, <<"\n", NoCandidatesMarker>>)
    /\ pc' = "returned"
    /\ result' = FinalTextOutput(final_response_parts')
    /\ UNCHANGED <<configVars, outerVars, callVars, resolved, engineVars, turn,
                   llm_tool_config, tool_name, resolve_idx, found_service_for_tool,
                   tool_calls, llm_failed>>

\* engine.py 89-93, 181-183: the response has no candidates
LLMNoCandidates ==
    /\ pc = "await_llm"
    /\ llm_calls' = llm_calls + 1
    /\ conditions' = conditions \cup {Condition("no_candidates", turn, "")}
    /\ final_response_parts' = Append(final_response_parts, <<"\n", NoCandidatesMarker>>)
    /\ pc' = "returned"
    /\ result' = FinalTextOutput(final_response_parts')
    /\ UNCHANGED <<configVars, outerVars, callVars, resolved, engineVars,
                   turn, conversation_history, llm_tool_config,
                   tool_name, resolve_idx, found_service_for_tool, tool_calls, llm_failed>>

\* engine.py 95-123, 148-172: the response's first candidate is appended and
\* scanned up to the first await of the resolution
LLMResponds(parts) ==
    /\ pc = "await_llm"
    /\ llm_calls' = llm_calls + 1
    /\ IF FirstFunctionCall(parts) = 0
       THEN /\ conversation_history' = Append(conversation_history, Content("model", parts))
            /\ final_response_parts' = TerminalParts(final_response_parts, parts)
            /\ pc' = "returned"
            /\ result' = FinalTextOutput(final_response_parts')
            /\ UNCHANGED <<turn, tool_name, resolve_idx, found_service_for_tool, conditions,
                           resolved>>
       ELSE /\ tool_name' = parts[FirstFunctionCall(parts)].name
            /\ found_service_for_tool' = NoService
            /\ IF mcp_services = <<>>
               THEN /\ ToolTurnDone(Append(conversation_history, Content("model", parts)),
                                    parts[FirstFunctionCall(parts)].name, NotFoundPayload)
                    /\ conditions' = conditions \cup
                           {Condition("tool_not_found", turn, parts[FirstFunctionCall(parts)].name)}
                    /\ resolved' = Resolved(parts[FirstFunctionCall(parts)].name, NotFound)
                    /\ UNCHANGED resolve_idx
               ELSE /\ conversation_history' =
                           Append(conversation_history, Content("model", parts))
                    /\ pc' = "resolve"
                    /\ resolve_idx' = 1
                    /\ UNCHANGED <<turn, final_response_parts, result, conditions, resolved>>
    /\ UNCHANGED <<configVars, outerVars, callVars, engineVars, llm_tool_config, tool_calls,
                   llm_failed>>

\* variant: the services visited in an order that differs from one engine to
\* the next (a mapping without a stable iteration order)
ServiceAtPerEngine(i) ==
    IF engine_no = 1 THEN mcp_services[i] ELSE mcp_services[Len(mcp_services) + 1 - i]

\* variant: the resolution loop visiting the servers last-registered first
ServiceAtReversed(i) == mcp_services[Len(mcp_services) + 1 - i]

\* engine.py 123: the server the resolution loop visits in its i-th iteration
ServiceAt(i) == mcp_services[i]

\* engine.py 125: any(t.name == tool_name for t in service_tools)
Declares(s, n) == \E i \in 1..Len(listing[s]) : listing[s][i] = n

\* engine.py 123-130, 148-159: get_tools() of the visited server returns
ResolveListed ==
    /\ pc = "resolve"
    /\ IF Declares(ServiceAt(resolve_idx), tool_name)
       THEN /\ found_service_for_tool' = ServiceAt(resolve_idx)
            /\ resolved' = Resolved(tool_name, ServiceAt(resolve_idx))
            /\ pc' = "call_tool"
            /\ UNCHANGED <<resolve_idx, turn, conversation_history, final_response_parts,
                           result, conditions>>
       ELSE IF resolve_idx < Len(mcp_services)
            THEN /\ resolve_idx' = resolve_idx + 1
                 /\ UNCHANGED <<pc, found_service_for_tool, turn, conversation_history,
                                final_response_parts, result, conditions, resolved>>
            ELSE /\ ToolTurnDone(conversation_history, tool_name, NotFoundPayload)
                 /\ conditions' = conditions \cup {Condition("tool_not_found", turn, tool_name)}
                 /\ resolved' = Resolved(tool_name, NotFound)
                 /\ UNCHANGED <<resolve_idx, found_service_for_tool>>
    /\ UNCHANGED <<configVars, outerVars, callVars, engineVars, llm_tool_config,
                   tool_name, llm_calls,
                   tool_calls, llm_failed>>

\* engine.py 124 (services.py 47): get_tools() of the visited server raises;
\* nothing in process_user_query catches it
ResolveGetToolsRaises ==
    /\ pc = "resolve"
    /\ pc' = "raised"
    /\ conditions' = conditions \cup {Condition("get_tools_failed", turn, tool_name)}
    /\ UNCHANGED <<configVars, outerVars, callVars, resolved, engineVars,
                   turn, conversation_history, final_response_parts,
                   llm_tool_config, tool_name, resolve_idx, found_service_for_tool, result,
                   llm_calls, tool_calls, llm_failed>>

\* engine.py 132-142, 154-159: call_tool returns r
CallToolReturns(r) ==
    /\ pc = "call_tool"
    /\ tool_calls' = Append(tool_calls, [turn |-> turn, service |-> found_service_for_tool,
                                         tool |-> tool_name, ok |-> TRUE, returned |-> r])
    /\ ToolTurnDone(conversation_history, tool_name, WrapResult(r))
    /\ UNCHANGED <<configVars, outerVars, callVars, resolved, engineVars,
                   llm_tool_config, tool_name, resolve_idx,
                   found_service_for_tool, llm_calls, llm_failed, conditions>>

\* variant: the exception of call_tool leaves process_user_query
CallToolRaisesUncaught ==
    /\ pc = "call_tool"
    /\ tool_calls' = Append(tool_calls, [turn |-> turn, service |-> found_service_for_tool,
                                         tool |-> tool_name, ok |-> FALSE, returned |-> "none"])
    /\ conditions' = conditions \cup {Condition("tool_failed", turn, tool_name)}
    /\ pc' = "raised"
    /\ UNCHANGED <<configVars, outerVars, callVars, resolved, engineVars,
                   turn, conversation_history, final_response_parts,
                   llm_tool_config, tool_name, resolve_idx, found_service_for_tool, result,
                   llm_calls, llm_failed>>

\* engine.py 143-147, 154-159: call_tool raises
CallToolRaises ==
    /\ pc = "call_tool"
    /\ tool_calls' = Append(tool_calls, [turn |-> turn, service |-> found_service_for_tool,
                                         tool |-> tool_name, ok |-> FALSE, returned |-> "none"])
    /\ conditions' = conditions \cup {Condition("tool_failed", turn, tool_name)}
    /\ ToolTurnDone(conversation_history, tool_name, ToolErrorPayload)
    /\ UNCHANGED <<configVars, outerVars, callVars, resolved, engineVars,
                   llm_tool_config, tool_name, resolve_idx,
                   found_service_for_tool, llm_calls, llm_failed>>

Next ==
    \/ SetupNoServers
    \/ SetupService
    \/ SetupConnectRaises
    \/ SetupGetToolsRaises
    \/ \E q \in Queries : StartQuery(q)
    \/ LLMRaises
    \/ LLMNoCandidates
    \/ \E parts \in PartSeqs(MaxModelParts - ModelPartsUsed(conversation_history)) :
          LLMResponds(parts)
    \/ ResolveListed
    \/ ResolveGetToolsRaises
    \/ \E r \in ToolResults : CallToolReturns(r)
    \/ CallToolRaises

Spec == Init /\ [][Next]_vars

\* --------------------------------------------------- awaited calls complete
\* engine.py 81, 124, 132: the call awaited by the running query (the LLM
\* gateway's generate_response, a service's get_tools or call_tool) returns
\* or raises
AwaitCompletes ==
    \/ LLMRaises
    \/ LLMNoCandidates
    \/ \E parts \in PartSeqs(MaxModelParts - ModelPartsUsed(conversation_history)) :
          LLMResponds(parts)
    \/ ResolveListed
    \/ ResolveGetToolsRaises
    \/ \E r \in ToolResults : CallToolReturns(r)
    \/ CallToolRaises

\* where the running call stands; every completion of an awaited call changes it
progress == <<pc, turn, resolve_idx, llm_calls>>

\* the engine of Spec, with no awaited call pending for ever
SpecFair == Init /\ [][Next]_vars /\ WF_progress(AwaitCompletes)

\* ------------------------------------------------- several queries, one engine
\* cli.py 26-48: the chat loop calls process_user_query again on the same
\* engine, with the same or another query, whether the last call returned or raised
FollowUpQueries == {"q", "r"}

\* the responses of at most one part: a text or a function_call, or nothing
ShortResponses == PartSeqs(1)

NextSession ==
    \/ SetupNoServers
    \/ SetupService
    \/ SetupConnectRaises
    \/ SetupGetToolsRaises
    \/ \E q \in Queries : StartQuery(q)
    \/ \E q \in FollowUpQueries : NextQuery(q)
    \/ LLMRaises
    \/ LLMNoCandidates
    \/ \E parts \in ShortResponses : LLMResponds(parts)
    \/ ResolveListed
    \/ ResolveGetToolsRaises
    \/ \E r \in ToolResults : CallToolReturns(r)
    \/ CallToolRaises

SpecSession == Init /\ [][NextSession]_vars

\* ------------------------------------------- two engines, one configuration
\* cli.py 164, engine.py 18-30: once the first engine's query is over, a
\* second WorkflowEngine is constructed from the same workflow configuration
Rebuild ==
    /\ engine_no = 1
    /\ pc \in {"returned", "raised"}
    /\ engine_no' = 2
    /\ mcp_services' = <<>>
    /\ all_mcp_tools' = <<>>
    /\ setup_state' = "not_called"
    /\ setup_idx' = 1
    /\ setup_failed_at' = 0
    /\ pc' = "idle"
    /\ turn' = 0
    /\ conversation_history' = <<>>
    /\ final_response_parts' = <<>>
    /\ llm_tool_config' = NoneConfig
    /\ tool_name' = ""
    /\ resolve_idx' = 0
    /\ found_service_for_tool' = NoService
    /\ result' = <<>>
    /\ llm_calls' = 0
    /\ tool_calls' = <<>>
    /\ llm_failed' = FALSE
    /\ conditions' = {}
    /\ user_query' = ""
    /\ query_no' = 0
    /\ prior_llm_failure' = FALSE
    /\ exit_stack' = <<>>
    /\ UNCHANGED <<configVars, resolved, mcp_tool, declaration, listing, suspended,
                   cli_pc, close_calls>>

NextRebuild ==
    \/ SetupNoServers
    \/ SetupService
    \/ SetupConnectRaises
    \/ SetupGetToolsRaises
    \/ \E q \in Queries : StartQuery(q)
    \/ LLMRaises
    \/ LLMNoCandidates
    \/ \E parts \in ShortResponses : LLMResponds(parts)
    \/ ResolveListed
    \/ ResolveGetToolsRaises
    \/ \E r \in ToolResults : CallToolReturns(r)
    \/ CallToolRaises
    \/ Rebuild

SpecRebuild == Init /\ [][NextRebuild]_vars

\* ------------------------------------------- two calls on one engine, interleaved
\* the locals of the running process_user_query call
ActiveFrame ==
    [pc |-> pc, turn |-> turn, conversation_history |-> conversation_history,
     final_response_parts |-> final_response_parts, llm_tool_config |-> llm_tool_config,
     tool_name |-> tool_name, resolve_idx |-> resolve_idx,
     found_service_for_tool |-> found_service_for_tool, result |-> result,
     llm_calls |-> llm_calls, tool_calls |-> tool_calls, llm_failed |-> llm_failed,
     conditions |-> conditions, user_query |-> user_query]

\* variant: the conversation and the answer parts kept on the engine, shared
\* by the two calls
SwitchSharedHistory ==
    /\ setup_state = "ok"
    /\ pc \in {"await_llm", "resolve", "call_tool", "returned", "raised"}
    /\ suspended' = ActiveFrame
    /\ pc' = suspended.pc
    /\ turn' = suspended.turn
    /\ llm_tool_config' = suspended.llm_tool_config
    /\ tool_name' = suspended.tool_name
    /\ resolve_idx' = suspended.resolve_idx
    /\ found_service_for_tool' = suspended.found_service_for_tool
    /\ result' = suspended.result
    /\ llm_calls' = suspended.llm_calls
    /\ tool_calls' = suspended.tool_calls
    /\ llm_failed' = suspended.llm_failed
    /\ conditions' = suspended.conditions
    /\ user_query' = suspended.user_query
    /\ UNCHANGED <<configVars, engineVars, query_no, prior_llm_failure, engine_no,
                   resolved, mcp_tool, declaration, listing, cli_pc, close_calls,
                   conversation_history, final_response_parts>>

\* engine.py 81, 124, 132 (cli.py 165-172): on an engine that was set up, the
\* running call waits at an await (or is over) and the event loop runs the
\* other call, each with its own locals
Switch ==
    /\ setup_state = "ok"
    /\ pc \in {"await_llm", "resolve", "call_tool", "returned", "raised"}
    /\ suspended' = ActiveFrame
    /\ pc' = suspended.pc
    /\ turn' = suspended.turn
    /\ conversation_history' = suspended.conversation_history
    /\ final_response_parts' = suspended.final_response_parts
    /\ llm_tool_config' = suspended.llm_tool_config
    /\ tool_name' = suspended.tool_name
    /\ resolve_idx' = suspended.resolve_idx
    /\ found_service_for_tool' = suspended.found_service_for_tool
    /\ result' = suspended.result
    /\ llm_calls' = suspended.llm_calls
    /\ tool_calls' = suspended.tool_calls
    /\ llm_failed' = suspended.llm_failed
    /\ conditions' = suspended.conditions
    /\ user_query' = suspended.user_query
    /\ UNCHANGED <<configVars, engineVars, query_no, prior_llm_failure, engine_no,
                   resolved, mcp_tool, declaration, listing, cli_pc, close_calls>>

\* the responses the two calls get: a text, a blank text, a call of either tool
FewResponses ==
    {<<TextPart(<<"a">>)>>, <<TextPart(<<" ">>)>>,
     <<FunctionCallPart("t1")>>, <<FunctionCallPart("t2")>>}

\* what their tool calls return
FewResults == {"str"}

NextInterleaved ==
    \/ SetupNoServers
    \/ SetupService
    \/ SetupConnectRaises
    \/ SetupGetToolsRaises
    \/ \E q \in FollowUpQueries : StartQuery(q)
    \/ LLMRaises
    \/ LLMNoCandidates
    \/ \E parts \in FewResponses : LLMResponds(parts)
    \/ ResolveListed
    \/ ResolveGetToolsRaises
    \/ \E r \in FewResults : CallToolReturns(r)
    \/ CallToolRaises
    \/ Switch

SpecInterleaved == Init /\ [][NextInterleaved]_vars

\* ------------------------------------------------ listings that change
\* the tool lists a server may answer with
ToolLists == {<<>>, <<"t1">>, <<"t2">>, <<"t1", "t2">>}

\* services.py 47: after setup, server s answers list_tools() with another list
ListingChanges(s, l) ==
    /\ setup_state = "ok"
    /\ l # listing[s]
    /\ listing' = [listing EXCEPT ![s] = l]
    /\ UNCHANGED <<configVars, engineVars, callVars, queryVars, engine_no, resolved,
                   mcp_tool, declaration, suspended, cli_pc, close_calls>>

NextListing ==
    \/ SetupNoServers
    \/ SetupService
    \/ SetupConnectRaises
    \/ SetupGetToolsRaises
    \/ \E q \in Queries : StartQuery(q)
    \/ LLMRaises
    \/ LLMNoCandidates
    \/ \E parts \in ShortResponses : LLMResponds(parts)
    \/ ResolveListed
    \/ ResolveGetToolsRaises
    \/ \E r \in ToolResults : CallToolReturns(r)
    \/ CallToolRaises
    \/ \E s \in Servers, l \in ToolLists : ListingChanges(s, l)

SpecListing == Init /\ [][NextListing]_vars

\* ------------------------------------------------------- the command line
\* cli.py 165-172: setup_services returned; main goes on to the single query
\* of args.query or to the chat loop
CliSetupDone(mode) ==
    /\ cli_pc = "constructed"
    /\ setup_state = "ok"
    /\ cli_pc' = mode
    /\ UNCHANGED <<configVars, engineVars, callVars, queryVars, engine_no, resolved,
                   mcp_tool, declaration, listing, suspended, close_calls>>

\* variant: setup_services awaited outside the try, its exception leaves main
\* without the finally clause
CliSetupRaisedNoClose ==
    /\ cli_pc = "constructed"
    /\ setup_state = "failed"
    /\ cli_pc' = "done"
    /\ UNCHANGED <<configVars, engineVars, callVars, queryVars, engine_no, resolved,
                   mcp_tool, declaration, listing, suspended, close_calls>>

\* cli.py 165, 178-186: setup_services raised; an except clause reports it
\* and main enters the finally clause
CliSetupRaised ==
    /\ cli_pc = "constructed"
    /\ setup_state = "failed"
    /\ cli_pc' = "finally"
    /\ UNCHANGED <<configVars, engineVars, callVars, queryVars, engine_no, resolved,
                   mcp_tool, declaration, listing, suspended, close_calls>>

\* cli.py 167-169: the single query is given to process_user_query
CliSingleQuery(q) ==
    /\ cli_pc = "single"
    /\ StartQuery(q)

\* cli.py 169-170, 181-186: the single query returned and is printed, or
\* raised and is reported; main enters the finally clause
CliSingleDone ==
    /\ cli_pc = "single"
    /\ pc \in {"returned", "raised"}
    /\ cli_pc' = "finally"
    /\ UNCHANGED <<configVars, engineVars, callVars, queryVars, engine_no, resolved,
                   mcp_tool, declaration, listing, suspended, close_calls>>

\* cli.py 26-41, 46-48: the chat loop reads a query and gives it to
\* process_user_query, also after a call that raised
ChatQuery(q) ==
    /\ cli_pc = "chat"
    /\ pc \in {"idle", "returned", "raised"}
    /\ query_no < MaxQueries
    /\ BeginQuery(q)

\* cli.py 31-33, 172, 186: 'quit' ends the chat loop; main enters the finally clause
ChatQuit ==
    /\ cli_pc = "chat"
    /\ pc \in {"idle", "returned", "raised"}
    /\ cli_pc' = "finally"
    /\ UNCHANGED <<configVars, engineVars, callVars, queryVars, engine_no, resolved,
                   mcp_tool, declaration, listing, suspended, close_calls>>

\* cli.py 186-189, engine.py 185-188: engine.close() closes the exit stack,
\* which leaves every context it holds, and main returns
CliClose ==
    /\ cli_pc = "finally"
    /\ close_calls' = close_calls + 1
    /\ exit_stack' = <<>>
    /\ cli_pc' = "done"
    /\ UNCHANGED <<configVars, callVars, queryVars, engine_no, resolved, mcp_tool,
                   declaration, listing, suspended, mcp_services, all_mcp_tools,
                   setup_state, setup_idx, setup_failed_at>>

NextCli ==
    \/ SetupNoServers
    \/ SetupService
    \/ SetupConnectRaises
    \/ SetupInitializeRaises
    \/ SetupGetToolsRaises
    \/ \E mode \in {"single", "chat"} : CliSetupDone(mode)
    \/ CliSetupRaised
    \/ \E q \in Queries : CliSingleQuery(q)
    \/ CliSingleDone
    \/ \E q \in FollowUpQueries : ChatQuery(q)
    \/ ChatQuit
    \/ LLMRaises
    \/ LLMNoCandidates
    \/ \E parts \in ShortResponses : LLMResponds(parts)
    \/ ResolveListed
    \/ ResolveGetToolsRaises
    \/ \E r \in ToolResults : CallToolReturns(r)
    \/ CallToolRaises
    \/ CliClose

SpecCli == Init /\ [][NextCli]_vars

\* ------------------------------------------------- translating one descriptor
\* an LLMService is given a tool descriptor a server listed
InitTranslate ==
    /\ mcp_tool \in ToolDescriptors
    /\ declaration = NoDeclaration
    /\ mcp_servers_used = <<>>
    /\ max_turns = 0
    /\ mcp_services = <<>>
    /\ all_mcp_tools = <<>>
    /\ setup_state = "not_called"
    /\ setup_idx = 1
    /\ pc = "idle"
    /\ turn = 0
    /\ conversation_history = <<>>
    /\ final_response_parts = <<>>
    /\ llm_tool_config = NoneConfig
    /\ tool_name = ""
    /\ resolve_idx = 0
    /\ found_service_for_tool = NoService
    /\ result = <<>>
    /\ llm_calls = 0
    /\ tool_calls = <<>>
    /\ llm_failed = FALSE
    /\ conditions = {}
    /\ setup_failed_at = 0
    /\ user_query = ""
    /\ query_no = 0
    /\ prior_llm_failure = FALSE
    /\ engine_no = 1
    /\ resolved = [e \in 1..2 |-> [n \in ToolNames |-> {}]]
    /\ listing = [s \in Servers |-> ServerToolList(s)]
    /\ suspended = NotStarted
    /\ exit_stack = <<>>
    /\ cli_pc = "constructed"
    /\ close_calls = 0

\* services.py 77-118: _convert_mcp_tool_to_genai_function(mcp_tool)
Convert ==
    /\ mcp_tool.tag = "tool"
    /\ declaration.tag = "none"
    /\ declaration' = ConvertMcpToolToGenaiFunction(mcp_tool)
    /\ UNCHANGED <<configVars, engineVars, callVars, queryVars, engine_no, resolved,
                   mcp_tool, listing, suspended, cli_pc, close_calls>>

NextTranslate == Convert

SpecTranslate == InitTranslate /\ [][NextTranslate]_vars

\* ================================================================ properties
\* the string s holds the symbol m
Contains(s, m) == \E i \in 1..Len(s) : s[i] = m

\* position in conversation_history of the model turn of loop iteration t,
\* and of the function_response answering it
ModelTurnAt(t) == 2 * t + 2
ResponseTurnAt(t) == 2 * t + 3

\* the turn c is a user turn of one function_response part named n
IsFunctionResponse(c, n) ==
    /\ c.role = "user"
    /\ Len(c.parts) = 1
    /\ c.parts[1].kind = "function_response"
    /\ c.parts[1].name = n

HasErrorKey(c) == "error" \in c.parts[1].response.keys

\* no server in mcp_services lists the tool n
Undeclared(n) == \A j \in 1..Len(mcp_services) : ~Declares(mcp_services[j], n)

\* position of server s in the sequence l (0: absent)
IndexIn(l, s) == IF \E i \in 1..Len(l) : l[i] = s
                 THEN CHOOSE i \in 1..Len(l) : l[i] = s ELSE 0

\* the query is over
Finished == pc \in {"returned", "raised"}

\* every model turn in the history requests a function call
AllTurnsCallTools ==
    \A i \in 1..Len(conversation_history) :
        conversation_history[i].role = "model"
            => FirstFunctionCall(conversation_history[i].parts) # 0

\* number of model turns in the history
ModelTurns == Cardinality({i \in 1..Len(conversation_history) :
                              conversation_history[i].role = "model"})

\* C1: a query makes at most max_turns calls to the LLM gateway, whatever the
\* LLM answers and the tools do.
C1_AtMostMaxTurnsLLMCalls == llm_calls <= max_turns

C1_Witness == pc = "returned" /\ max_turns >= 2 /\ llm_calls = max_turns

\* C2: every user turn carrying a function_response for tool N comes after a
\* model turn of the same history that holds a function_call named N.
C2_ResponseAfterMatchingCall ==
    \A i \in 1..Len(conversation_history) :
        \A k \in 1..Len(conversation_history[i].parts) :
            (/\ conversation_history[i].role = "user"
             /\ conversation_history[i].parts[k].kind = "function_response")
            => \E j \in 1..(i - 1) :
                  /\ conversation_history[j].role = "model"
                  /\ \E m \in 1..Len(conversation_history[j].parts) :
                        /\ conversation_history[j].parts[m].kind = "function_call"
                        /\ conversation_history[j].parts[m].name =
                              conversation_history[i].parts[k].name

C2_Witness ==
    /\ Len(conversation_history) >= 5
    /\ IsFunctionResponse(conversation_history[3], "t2")
    /\ IsFunctionResponse(conversation_history[5], "t1")

\* C3: once setup_services has completed, process_user_query never raises,
\* whatever fails inside the turn loop (the statement the code contradicts).
C3_NeverRaisesAfterSetup == setup_state = "ok" => pc # "raised"

\* C4: after a failed LLM call the query is over with the error marker in the
\* returned string, and no further LLM call or tool call is made.
C4_LLMFailureEndsQuery ==
    /\ [](llm_failed => (pc = "returned" /\ Contains(result, LLMErrorMarker)))
    /\ [][llm_failed => (llm_calls' = llm_calls /\ tool_calls' = tool_calls)]_vars

C4_Witness ==
    /\ llm_failed
    /\ llm_calls = 2
    /\ Len(tool_calls) = 1
    /\ pc = "returned"

\* C5: a function_call for a tool no connected service declares invokes no
\* call_tool, is answered in the next turn by a function_response for that
\* name with an 'error' key, and the loop goes on with the next turn (the
\* statement the code contradicts when get_tools raises during resolution).
C5_UnknownToolAnswered ==
    \A t \in 0..(MaxTurns + 1) :
        (/\ Len(conversation_history) >= ModelTurnAt(t)
         /\ FirstFunctionCall(conversation_history[ModelTurnAt(t)].parts) # 0
         /\ Undeclared(conversation_history[ModelTurnAt(t)].parts[
                FirstFunctionCall(conversation_history[ModelTurnAt(t)].parts)].name))
        => /\ \A k \in 1..Len(tool_calls) : tool_calls[k].turn # t
           /\ IF Len(conversation_history) = ModelTurnAt(t)
              THEN pc = "resolve"
              ELSE /\ IsFunctionResponse(conversation_history[ResponseTurnAt(t)],
                        conversation_history[ModelTurnAt(t)].parts[
                           FirstFunctionCall(conversation_history[ModelTurnAt(t)].parts)].name)
                   /\ HasErrorKey(conversation_history[ResponseTurnAt(t)])
                   /\ llm_calls = t + 1
                         => IF t + 1 < max_turns THEN pc = "await_llm"
                            ELSE pc = "returned"

\* C6: a failed call_tool is answered in the next turn by a function_response
\* with an 'error' key, and the loop goes on: the next LLM call is awaited if
\* the turn budget allows, else the query returns.
C6_ToolFailureNotFatal ==
    \A k \in 1..Len(tool_calls) :
        ~tool_calls[k].ok
        => /\ Len(conversation_history) >= ResponseTurnAt(tool_calls[k].turn)
           /\ IsFunctionResponse(conversation_history[ResponseTurnAt(tool_calls[k].turn)],
                                 tool_calls[k].tool)
           /\ HasErrorKey(conversation_history[ResponseTurnAt(tool_calls[k].turn)])
           /\ llm_calls = tool_calls[k].turn + 1
                 => IF tool_calls[k].turn + 1 < max_turns THEN pc = "await_llm"
                    ELSE pc = "returned"

C6_Witness ==
    \E k \in 1..Len(tool_calls) :
        /\ ~tool_calls[k].ok
        /\ llm_calls > tool_calls[k].turn + 1

\* C7: when every model turn requests a function call and max_turns >= 1, the
\* finished query has made exactly max_turns LLM calls, each answered by a
\* function_response turn, and returned the max-turns marker (the statement
\* the code contradicts when get_tools raises during resolution).
C7_ToolCallEveryTurn ==
    (/\ Finished
     /\ max_turns >= 1
     /\ llm_calls >= 1
     /\ ModelTurns = llm_calls
     /\ AllTurnsCallTools)
    => /\ pc = "returned"
       /\ llm_calls = max_turns
       /\ Len(conversation_history) = 2 * max_turns + 1
       /\ \A t \in 0..(max_turns - 1) :
             conversation_history[ResponseTurnAt(t)].parts[1].kind = "function_response"
       /\ (Contains(result, MaxTurnsNoTextMarker) \/ Contains(result, MaxTurnsMarker))

\* the non-blank text parts only, and at least one
OnlyNonBlankText(parts) ==
    /\ parts # <<>>
    /\ \A i \in 1..Len(parts) : parts[i].kind = "text" /\ ~IsBlank(parts[i].text)

\* C8: with no backend services and max_turns >= 1, a first response of
\* non-blank text only ends the query after one LLM call that got no tool
\* declarations, and the answer is that text, trimmed.
C8_PureTextAnswer ==
    (/\ mcp_servers_used = <<>>
     /\ max_turns >= 1
     /\ Len(conversation_history) >= 2
     /\ OnlyNonBlankText(conversation_history[2].parts))
    => /\ pc = "returned"
       /\ llm_calls = 1
       /\ llm_tool_config = NoneConfig
       /\ tool_calls = <<>>
       /\ result = Strip(ResponseText(conversation_history[2].parts))

C8_Witness ==
    /\ mcp_servers_used = <<>>
    /\ max_turns = 2
    /\ pc = "returned"
    /\ Len(conversation_history) = 2
    /\ conversation_history[2].parts = <<TextPart(<<" ", "a">>), TextPart(<<"a">>)>>
    /\ result = <<"a", "a">>

\* C9 as stated: the returned string holds a bracketed marker for every error
\* condition of the query: LLM failure, tool not found, tool invocation failure.
C9_MarkerForEveryCondition ==
    pc = "returned"
    => \A c \in conditions :
          /\ c.kind = "llm_failed" => Contains(result, LLMErrorMarker)
          /\ c.kind = "tool_not_found" => Contains(result, ToolNotFoundMarker)
          /\ c.kind = "tool_failed" => Contains(result, ToolErrorMarker)

\* C9 amended: a failed LLM call puts its bracketed marker into the returned
\* string; a tool that is not found or whose invocation fails is reported by
\* the 'error' key of the function_response turn answering that call.
C9_MarkerOrErrorPayload ==
    \A c \in conditions :
        /\ c.kind = "llm_failed" => (pc = "returned" /\ Contains(result, LLMErrorMarker))
        /\ c.kind \in {"tool_not_found", "tool_failed"}
             => /\ Len(conversation_history) >= ResponseTurnAt(c.turn)
                /\ IsFunctionResponse(conversation_history[ResponseTurnAt(c.turn)], c.tool)
                /\ HasErrorKey(conversation_history[ResponseTurnAt(c.turn)])

C9_Witness ==
    /\ pc = "returned"
    /\ \E c \in conditions : c.kind = "tool_failed"
    /\ \E c \in conditions : c.kind = "llm_failed"

\* C10: a tool call goes to the connected service that comes first in
\* mcp_servers_used among those declaring the tool, never to a later one.
C10_FirstRegisteredWins ==
    \A k \in 1..Len(tool_calls) :
        /\ IndexIn(mcp_services, tool_calls[k].service) # 0
        /\ Declares(tool_calls[k].service, tool_calls[k].tool)
        /\ \A j \in 1..Len(mcp_services) :
              (Declares(mcp_services[j], tool_calls[k].tool)
               /\ mcp_services[j] # tool_calls[k].service)
              => IndexIn(mcp_servers_used, tool_calls[k].service)
                    < IndexIn(mcp_servers_used, mcp_services[j])

C10_Witness ==
    \E k \in 1..Len(tool_calls) :
        /\ Len(mcp_services) = 2
        /\ Declares(mcp_services[1], tool_calls[k].tool)
        /\ Declares(mcp_services[2], tool_calls[k].tool)
        /\ tool_calls[k].service = mcp_services[1]
        /\ mcp_services[1] = "s2"

\* C11: two engines set up completely from the same ordered server list, the
\* servers listing the same tools, resolve each tool name to one and the same
\* outcome (the same service, or not found) in all their resolutions.
C11_ResolutionDeterministic ==
    \A n \in ToolNames : Cardinality(resolved[1][n] \cup resolved[2][n]) <= 1

C11_Witness ==
    /\ engine_no = 2
    /\ Len(mcp_services) = 2
    /\ resolved[1]["t1"] # {}
    /\ resolved[2]["t1"] = resolved[1]["t1"]
    /\ resolved[1]["t2"] # {}
    /\ resolved[2]["t2"] = resolved[1]["t2"]

\* C12: _convert_mcp_tool_to_genai_function returns a declaration for every
\* tool descriptor, malformed ones included (the statement the code
\* contradicts: a "properties" that is no object or a "type" that is no
\* string raises AttributeError).
C12_ConversionNeverRaises == declaration.tag # "raised"

\* C13: a returned declaration carries "Tool to perform <name>", which is not
\* empty, when the descriptor's description is missing, empty or
\* whitespace-only, and the descriptor's own description unchanged otherwise.
C13_DefaultDescription ==
    declaration.tag = "decl"
    => IF mcp_tool.description.kind = "null" \/ IsBlank(mcp_tool.description.val)
       THEN /\ declaration.description = <<"Tool to perform ", mcp_tool.name>>
            /\ declaration.description # <<>>
       ELSE declaration.description = mcp_tool.description.val

C13_Witness ==
    /\ declaration.tag = "decl"
    /\ mcp_tool.description = [kind |-> "str", val |-> <<" ">>]
    /\ declaration.description = <<"Tool to perform ", "t1">>

\* the source entry of the parameter named n
SourceProperty(n) ==
    mcp_tool.inputSchema.properties.entries[
        CHOOSE i \in 1..Len(mcp_tool.inputSchema.properties.entries) :
            mcp_tool.inputSchema.properties.entries[i].name = n].schema

\* C14: every translated array property carries an object-valued "items",
\* which is {type: "string"} when the source "items" is absent or no object
\* (the statement the code contradicts: a source "items" that is no object is
\* copied as it is).
C14_ArrayItemsObject ==
    declaration.tag = "decl"
    => \A i \in 1..Len(declaration.parameters.properties) :
          declaration.parameters.properties[i].schema.type = "array"
          => /\ declaration.parameters.properties[i].schema.items.kind = "dict"
             /\ SourceProperty(declaration.parameters.properties[i].name).items.kind # "dict"
                   => declaration.parameters.properties[i].schema.items
                         = Json("dict", "string")

\* the property entries of the descriptor that are objects
ObjectProperties ==
    {i \in 1..Len(mcp_tool.inputSchema.properties.entries) :
        mcp_tool.inputSchema.properties.entries[i].schema.kind = "dict"}

\* the translated entry of the parameter named n is of type t
TranslatedAs(n, t) ==
    /\ declaration.tag = "decl"
    /\ \E j \in 1..Len(declaration.parameters.properties) :
          /\ declaration.parameters.properties[j].name = n
          /\ declaration.parameters.properties[j].schema.type = t

\* the value under "type" names one of the six kinds, in any letter case
NamesValidType(v) ==
    v.kind = "str" /\ v.val \in {"string", "number", "integer", "boolean", "array",
                                 "object", "ARRAY", "Integer"}

\* C15: once the translator has run, every property of the descriptor is
\* translated with one of the six types, and with "string" when its source
\* type is absent or outside the six kinds (the statement the code
\* contradicts: a source "type" that is no string raises).
C15_TypeOneOfSix ==
    declaration.tag # "none"
    => \A i \in ObjectProperties :
          /\ \E t \in {"string", "number", "integer", "boolean", "array", "object"} :
                TranslatedAs(mcp_tool.inputSchema.properties.entries[i].name, t)
          /\ ~NamesValidType(mcp_tool.inputSchema.properties.entries[i].schema.type)
                => TranslatedAs(mcp_tool.inputSchema.properties.entries[i].name, "string")

\* C17: when connect() or get_tools() of a server of mcp_servers_used fails,
\* setup_services raises at that server, and from then on no later server is
\* connected or registered: the setup position and the session stay as the
\* failure left them.
C17_SetupFailureAborts ==
    /\ [](setup_failed_at # 0
            => /\ setup_state = "failed"
               /\ setup_idx = setup_failed_at
               /\ Len(mcp_services) <= setup_failed_at
               /\ \A j \in (setup_failed_at + 1)..Len(mcp_servers_used) :
                     IndexIn(mcp_services, mcp_servers_used[j]) = 0)
    /\ [][setup_failed_at # 0
            => UNCHANGED <<mcp_services, all_mcp_tools, setup_idx, setup_state,
                           setup_failed_at>>]_vars

C17_Witness ==
    /\ setup_failed_at = 1
    /\ Len(mcp_servers_used) = 2
    /\ mcp_services = <<mcp_servers_used[1]>>
    /\ pc = "returned"

\* C16: no step of process_user_query changes mcp_services, all_mcp_tools or
\* the workflow configuration, whatever its outcome; and a query made after a
\* query that ended in an LLM failure starts as on a fresh engine (first turn,
\* nothing accumulated, tools prepared from all_mcp_tools) and carries the LLM
\* error marker in its answer only if its own LLM call failed.
C16_SessionStateKept ==
    /\ [][pc' # "idle"
            => UNCHANGED <<mcp_services, all_mcp_tools, mcp_servers_used, max_turns>>]_vars
    /\ []((prior_llm_failure /\ pc = "await_llm" /\ llm_calls = 0)
            => /\ turn = 0
               /\ final_response_parts = <<>>
               /\ Len(conversation_history) = 1
               /\ tool_calls = <<>>
               /\ ~llm_failed
               /\ conditions = {}
               /\ llm_tool_config = PrepareToolsForLLM(all_mcp_tools))
    /\ []((prior_llm_failure /\ pc = "returned")
            => (Contains(result, LLMErrorMarker) <=> llm_failed))

C16_Witness ==
    /\ query_no = 2
    /\ prior_llm_failure
    /\ ~llm_failed
    /\ pc = "returned"
    /\ Len(tool_calls) = 1
    /\ tool_calls[1].ok

\* C18: whenever the first LLM call of a query is awaited, the conversation
\* history is exactly one user turn holding the prompt template formatted with
\* that query, however many queries the engine processed before.
C18_FirstCallHistoryFresh ==
    (pc = "await_llm" /\ llm_calls = 0)
    => /\ Len(conversation_history) = 1
       /\ conversation_history[1].role = "user"
       /\ Len(conversation_history[1].parts) = 1
       /\ conversation_history[1].parts[1].kind = "text"
       /\ conversation_history[1].parts[1].text = InitialPrompt(user_query)

C18_Witness ==
    /\ query_no = 2
    /\ user_query = "r"
    /\ prior_llm_failure
    /\ pc = "await_llm"
    /\ llm_calls = 0

\* the non-blank texts the scans of the model turns of history h kept, in order
RECURSIVE AllScannedTexts(_)
AllScannedTexts(h) ==
    IF h = <<>> THEN <<>>
    ELSE (IF Head(h).role = "model" THEN TextFromLLMThisTurn(Head(h).parts) ELSE <<>>)
         \o AllScannedTexts(Tail(h))

\* the symbols of a occur in b, in the same order
RECURSIVE IsSubSeq(_, _)
IsSubSeq(a, b) ==
    IF a = <<>> THEN TRUE
    ELSE IF b = <<>> THEN FALSE
    ELSE IF Head(a) = Head(b) THEN IsSubSeq(Tail(a), Tail(b))
    ELSE IsSubSeq(a, Tail(b))

\* C19: the returned answer holds every non-blank text part scanned in the
\* model turns of the query (terminal turns, and tool-calling turns up to the
\* first function_call), in the order of emission (the statement the code
\* contradicts: the texts of a tool-calling turn are dropped).
C19_ScannedTextInAnswer ==
    (pc = "returned" /\ llm_calls >= 1)
    => IsSubSeq(Strip(Join(AllScannedTexts(conversation_history))), result)

\* the tool calls made in loop iteration t
ToolCallsOfTurn(t) == {k \in 1..Len(tool_calls) : tool_calls[k].turn = t}

\* the answer parts that are model text, not markers
TextsInAnswer == {i \in 1..Len(final_response_parts) : final_response_parts[i] \in TextValues}

\* C20: of a model turn with function calls only the first is serviced: at
\* most one call_tool, for that call's name; once the turn's servicing is
\* over exactly one function_response turn, for that name, follows the model
\* turn; and no text beyond the scanned parts is accumulated (the statement
\* the code contradicts when get_tools raises during resolution).
C20_OnlyFirstCallServiced ==
    /\ Cardinality(TextsInAnswer) <= Len(AllScannedTexts(conversation_history))
    /\ \A t \in 0..(MaxTurns + 1) :
          (/\ Len(conversation_history) >= ModelTurnAt(t)
           /\ FirstFunctionCall(conversation_history[ModelTurnAt(t)].parts) # 0)
          => /\ Cardinality(ToolCallsOfTurn(t)) <= 1
             /\ \A k \in ToolCallsOfTurn(t) :
                   tool_calls[k].tool =
                      conversation_history[ModelTurnAt(t)].parts[
                         FirstFunctionCall(conversation_history[ModelTurnAt(t)].parts)].name
             /\ IF Len(conversation_history) = ModelTurnAt(t)
                THEN pc \in {"resolve", "call_tool"}
                ELSE /\ IsFunctionResponse(conversation_history[ResponseTurnAt(t)],
                          conversation_history[ModelTurnAt(t)].parts[
                             FirstFunctionCall(conversation_history[ModelTurnAt(t)].parts)].name)
                     /\ Len(conversation_history) > ResponseTurnAt(t)
                           => conversation_history[ResponseTurnAt(t) + 1].role = "model"

\* the name of the function call serviced in the model turn c
ServicedCall(c) == c.parts[FirstFunctionCall(c.parts)].name

\* C21: whenever a further LLM call of a query is awaited, the history it is
\* given ends with the model turn of the previous iteration followed by the
\* function_response answering it; and an LLM call is made only from the
\* head of an iteration, never while a resolution or a tool call is pending.
C21_TurnsSequential ==
    /\ []((pc = "await_llm" /\ llm_calls >= 1)
            => /\ Len(conversation_history) = 2 * llm_calls + 1
               /\ conversation_history[2 * llm_calls].role = "model"
               /\ FirstFunctionCall(conversation_history[2 * llm_calls].parts) # 0
               /\ IsFunctionResponse(conversation_history[2 * llm_calls + 1],
                                     ServicedCall(conversation_history[2 * llm_calls]))
               /\ \A k \in 1..Len(tool_calls) : tool_calls[k].turn < llm_calls)
    /\ [][llm_calls' # llm_calls => (pc = "await_llm" /\ turn = llm_calls)]_vars

C21_Witness ==
    /\ pc = "await_llm"
    /\ llm_calls = 1
    /\ Len(tool_calls) = 1
    /\ ~tool_calls[1].ok
    /\ HasErrorKey(conversation_history[3])

\* the sequence a is a prefix of the sequence b
IsPrefix(a, b) == Len(a) <= Len(b) /\ SubSeq(b, 1, Len(a)) = a

\* the step is an LLM call that returned a response with a candidate
CandidateReturned ==
    /\ llm_calls' = llm_calls + 1
    /\ ~llm_failed'
    /\ \A c \in conditions' \ conditions : c.kind # "no_candidates"

\* C22: every step of a query leaves the history it had as a prefix of the
\* history it has next, and a step in which the LLM returns a candidate
\* appends a model turn to it, whatever parts the turn holds.
C22_HistoryAppendOnly ==
    /\ [][IsPrefix(conversation_history, conversation_history')]_vars
    /\ [][CandidateReturned
            => /\ Len(conversation_history') > Len(conversation_history)
               /\ conversation_history'[Len(conversation_history) + 1].role = "model"]_vars

C22_Witness ==
    /\ Len(conversation_history) = 5
    /\ conversation_history[2].parts = <<FunctionCallPart("t2")>>
    /\ conversation_history[4].parts = <<FunctionCallPart("t1")>>
    /\ conversation_history[5].role = "user"

\* str(v): a string is its own rendering, any other value is rendered as text
Str(v) == IF v = "str" THEN v ELSE "rendered"

\* C23: the function_response answering a successful tool call is a new user
\* turn whose payload is the result itself when it is a mapping, {output: s}
\* for a string s and {output: str(v)} for any other value v (the statement
\* the code contradicts: a value that is neither is put under "output" as it is).
C23_ResultWrapped ==
    \A k \in 1..Len(tool_calls) :
        (tool_calls[k].ok /\ Len(conversation_history) >= ResponseTurnAt(tool_calls[k].turn))
        => /\ IsFunctionResponse(conversation_history[ResponseTurnAt(tool_calls[k].turn)],
                                 tool_calls[k].tool)
           /\ conversation_history[ResponseTurnAt(tool_calls[k].turn)].parts[1].response =
                 IF tool_calls[k].returned = "dict"
                 THEN [keys |-> {"data"}, value |-> "dict"]
                 ELSE [keys |-> {"output"}, value |-> Str(tool_calls[k].returned)]

\* an LLM call of the query returned a response without candidates
NoCandidates == \E c \in conditions : c.kind = "no_candidates"

\* C24: a response without candidates ends the query: the answer holds the
\* no-candidates marker, the history holds nothing of that call (it ends with
\* the turn the call was given), no tool is called for that iteration, and
\* afterwards no LLM call or tool call is made and the history stays as it is.
C24_NoCandidatesEndsQuery ==
    /\ [](\A c \in conditions :
            c.kind = "no_candidates"
            => /\ pc = "returned"
               /\ Contains(result, NoCandidatesMarker)
               /\ llm_calls = c.turn + 1
               /\ Len(conversation_history) = 2 * c.turn + 1
               /\ conversation_history[Len(conversation_history)].role = "user"
               /\ \A k \in 1..Len(tool_calls) : tool_calls[k].turn < c.turn)
    /\ [][NoCandidates
            => UNCHANGED <<llm_calls, tool_calls, conversation_history>>]_vars

C24_Witness ==
    /\ NoCandidates
    /\ llm_calls = 2
    /\ Len(tool_calls) = 1
    /\ Len(conversation_history) = 3
    /\ result = <<NoCandidatesMarker>>

\* the last turn of the history is a model turn without function call
TerminalTurn ==
    /\ conversation_history # <<>>
    /\ conversation_history[Len(conversation_history)].role = "model"
    /\ FirstFunctionCall(conversation_history[Len(conversation_history)].parts) = 0

\* C25: a model turn without function_call ends the query, no LLM call
\* follows it; when the turn has no non-blank text and the answer had none
\* before, the answer is the no-further-text marker.
C25_TerminalTurn ==
    /\ [](TerminalTurn
            => /\ pc = "returned"
               /\ llm_calls = ModelTurns
               /\ (KeptTexts(conversation_history[Len(conversation_history)].parts) = <<>>
                   /\ \A i \in 1..Len(final_response_parts) :
                         final_response_parts[i] = <<NoTextMarker>>
                         \/ IsBlank(final_response_parts[i]))
                  => result = <<NoTextMarker>>)
    /\ [][TerminalTurn => llm_calls' = llm_calls]_vars

C25_Witness ==
    /\ TerminalTurn
    /\ llm_calls = 2
    /\ conversation_history[4].parts = <<TextPart(<<" ">>)>>
    /\ result = <<NoTextMarker>>

\* C26: all_mcp_tools, and with it the tool declarations given to the LLM,
\* holds at most one descriptor per tool name, the one of the service
\* registered first (the statement the code contradicts: the lists of all
\* services are concatenated).
C26_OneToolPerName ==
    /\ \A i, j \in 1..Len(all_mcp_tools) :
          all_mcp_tools[i].name = all_mcp_tools[j].name => i = j
    /\ \A i \in 1..Len(all_mcp_tools) :
          \A k \in 1..Len(mcp_services) :
             Declares(mcp_services[k], all_mcp_tools[i].name)
             => IndexIn(mcp_services, all_mcp_tools[i].server) <= k
    /\ all_mcp_tools # <<>>
          => \A i, j \in 1..Len(PrepareToolsForLLM(all_mcp_tools)) :
                PrepareToolsForLLM(all_mcp_tools)[i] = PrepareToolsForLLM(all_mcp_tools)[j]
                => i = j

\* C29: once setup_services has failed, process_user_query makes no LLM call
\* and no tool call (the statement the code contradicts: the guard of the
\* query only looks for an empty mcp_services).
C29_NoQueryAfterFailedSetup ==
    setup_state = "failed" => (llm_calls = 0 /\ tool_calls = <<>>)

\* the names of the entries of a "properties" object that are objects, in order
RECURSIVE ObjectPropertyNames(_)
ObjectPropertyNames(entries) ==
    IF entries = <<>> THEN <<>>
    ELSE (IF Head(entries).schema.kind = "dict" THEN <<Head(entries).name>> ELSE <<>>)
         \o ObjectPropertyNames(Tail(entries))

\* C30: once the translator has run on a descriptor, the declaration's
\* properties are exactly the source entries that are objects, under their
\* names, and no entry that is not an object is among them (the statement
\* the code contradicts: an object entry whose "type" is no string raises).
C30_ObjectPropertiesKept ==
    (declaration.tag # "none" /\ mcp_tool.inputSchema.properties.kind = "dict")
    => /\ declaration.tag = "decl"
       /\ Len(declaration.parameters.properties)
             = Len(ObjectPropertyNames(mcp_tool.inputSchema.properties.entries))
       /\ \A i \in 1..Len(declaration.parameters.properties) :
             declaration.parameters.properties[i].name
                = ObjectPropertyNames(mcp_tool.inputSchema.properties.entries)[i]

\* the positions in mcp_services of the services that listed tool n at setup
ListedAtSetup(n) ==
    {k \in 1..Len(mcp_services) :
        \E i \in 1..Len(all_mcp_tools) :
            all_mcp_tools[i].server = mcp_services[k] /\ all_mcp_tools[i].name = n}

\* what the tool lists obtained in setup_services determine for tool n
SetupResolution(n) ==
    IF ListedAtSetup(n) = {} THEN NotFound
    ELSE mcp_services[CHOOSE k \in ListedAtSetup(n) : \A j \in ListedAtSetup(n) : k <= j]

\* C27: on a completely set-up engine every resolution of a tool name gives
\* the service (or not-found) that the tool lists obtained in setup_services
\* determine, also after a server's listing has changed (the statement the
\* code contradicts: resolution lists the tools anew on every call).
C27_ResolutionFixedAtSetup ==
    setup_state = "ok"
    => \A n \in ToolNames : resolved[engine_no][n] \subseteq {SetupResolution(n)}

\* the history of the call with locals f holds its own prompt, then model
\* turns each followed by the function_response answering it, and its tool
\* calls are those of its own model turns
OwnHistory(f) ==
    f.conversation_history # <<>>
    => /\ f.conversation_history[1] =
             Content("user", <<TextPart(InitialPrompt(f.user_query))>>)
       /\ Len(f.conversation_history) <= 2 * f.llm_calls + 1
       /\ \A i \in 2..Len(f.conversation_history) :
             IF i % 2 = 0
             THEN f.conversation_history[i].role = "model"
             ELSE /\ FirstFunctionCall(f.conversation_history[i - 1].parts) # 0
                  /\ IsFunctionResponse(f.conversation_history[i],
                                        ServicedCall(f.conversation_history[i - 1]))
       /\ \A k \in 1..Len(f.tool_calls) :
             /\ Len(f.conversation_history) >= ModelTurnAt(f.tool_calls[k].turn)
             /\ ServicedCall(f.conversation_history[ModelTurnAt(f.tool_calls[k].turn)])
                   = f.tool_calls[k].tool

\* the answer of a call run alone that met what the call with locals f met
AnswerAlone(f) ==
    IF f.conversation_history = <<>> THEN NotInitialized
    ELSE IF f.llm_failed THEN <<LLMErrorMarker>>
    ELSE IF \E c \in f.conditions : c.kind = "no_candidates" THEN <<NoCandidatesMarker>>
    ELSE IF /\ f.conversation_history[Len(f.conversation_history)].role = "model"
            /\ FirstFunctionCall(
                   f.conversation_history[Len(f.conversation_history)].parts) = 0
         THEN IF KeptTexts(f.conversation_history[Len(f.conversation_history)].parts) = <<>>
              THEN <<NoTextMarker>>
              ELSE Strip(Join(KeptTexts(
                      f.conversation_history[Len(f.conversation_history)].parts)))
    ELSE <<MaxTurnsNoTextMarker>>

\* C28: of two process_user_query calls interleaved at their awaits on one
\* engine, each has a history of its own prompt, model turns and
\* function_responses only, and each returns the answer of a call run alone.
C28_InterleavedQueriesIsolated ==
    /\ OwnHistory(ActiveFrame)
    /\ OwnHistory(suspended)
    /\ pc = "returned" => result = AnswerAlone(ActiveFrame)
    /\ suspended.pc = "returned" => suspended.result = AnswerAlone(suspended)

C28_Witness ==
    /\ pc = "returned"
    /\ suspended.pc = "returned"
    /\ user_query # suspended.user_query
    /\ llm_calls = 2
    /\ suspended.llm_calls = 2
    /\ Len(tool_calls) = 1
    /\ Len(suspended.tool_calls) = 1
    /\ result = <<"a">>
    /\ suspended.result = <<NoTextMarker>>

\* the value under "required" is a list whose members are all strings
ListOfStrings(rq) ==
    rq.kind = "list" /\ \A i \in 1..Len(rq.names) : rq.names[i].kind = "str"

\* C31: a returned declaration's parameters carry "required" only as a
\* non-empty list of strings, the source list itself; when the source
\* "required" is absent, empty or no list of strings, the key is omitted.
C31_RequiredNonEmptyOrOmitted ==
    declaration.tag = "decl"
    => /\ declaration.parameters.required.kind \in {"absent", "list"}
       /\ declaration.parameters.required.kind = "list"
             => /\ declaration.parameters.required.names # <<>>
                /\ ListOfStrings(declaration.parameters.required)
                /\ declaration.parameters.required = mcp_tool.inputSchema.required
       /\ (\/ mcp_tool.inputSchema.required.kind = "absent"
           \/ mcp_tool.inputSchema.required.names = <<>>
           \/ ~ListOfStrings(mcp_tool.inputSchema.required))
             => declaration.parameters.required.kind = "absent"

C31_Witness ==
    /\ declaration.tag = "decl"
    /\ mcp_tool.inputSchema.required.kind = "list"
    /\ Len(mcp_tool.inputSchema.required.names) = 2
    /\ ~ListOfStrings(mcp_tool.inputSchema.required)
    /\ declaration.parameters.properties # <<>>
    /\ declaration.parameters.required.kind = "absent"

\* C38: every name in a returned declaration's "required" list is a key of
\* its "properties" (the statement the code contradicts: "required" is copied
\* as it is, also when the entry of a name was dropped or never given).
C38_RequiredAreProperties ==
    (declaration.tag = "decl" /\ declaration.parameters.required.kind = "list")
    => \A i \in 1..Len(declaration.parameters.required.names) :
          \E j \in 1..Len(declaration.parameters.properties) :
             declaration.parameters.properties[j].name
                = declaration.parameters.required.names[i].val

\* C34: a process_user_query call made before setup_services, on a workflow
\* that names at least one backend service, makes no LLM call and no tool
\* call and returns "Error: Workflow services are not initialized."
C34_QueryBeforeSetup ==
    (setup_state = "not_called" /\ mcp_servers_used # <<>> /\ pc # "idle")
    => /\ pc = "returned"
       /\ result = <<"Error: Workflow services are not initialized.">>
       /\ llm_calls = 0
       /\ tool_calls = <<>>
       /\ conditions = {}

C34_Witness ==
    /\ setup_state = "not_called"
    /\ Len(mcp_servers_used) = 2
    /\ max_turns = 2
    /\ query_no = 1
    /\ pc = "returned"
    /\ result = NotInitialized

\* C35: when the k-th LLM call of a query is awaited the history holds
\* exactly 2k-1 turns, the user prompt followed by k-1 pairs of a model turn
\* and a user turn of one function_response; when the query has returned the
\* history holds at most 2 * max_turns + 1 turns.
C35_HistoryLength ==
    /\ pc = "await_llm"
          => /\ Len(conversation_history) = 2 * (llm_calls + 1) - 1
             /\ conversation_history[1] =
                   Content("user", <<TextPart(InitialPrompt(user_query))>>)
             /\ \A j \in 1..llm_calls :
                   /\ conversation_history[2 * j].role = "model"
                   /\ conversation_history[2 * j + 1].role = "user"
                   /\ Len(conversation_history[2 * j + 1].parts) = 1
                   /\ conversation_history[2 * j + 1].parts[1].kind = "function_response"
    /\ pc = "returned" => Len(conversation_history) <= 2 * max_turns + 1

C35_Witness ==
    /\ pc = "returned"
    /\ max_turns = 2
    /\ llm_calls = 2
    /\ Len(conversation_history) = 2 * max_turns + 1

\* the bracketed markers and the fixed error string an answer may hold
AnswerMarkers ==
    {LLMErrorMarker, NoCandidatesMarker, NoTextMarker, MaxTurnsNoTextMarker,
     MaxTurnsMarker, "Error: Workflow services are not initialized."}

\* C36: the string process_user_query returns is never empty: it holds
\* non-blank model text or a marker, whichever exit the call took.
C36_AnswerNeverEmpty ==
    pc = "returned"
    => /\ result # <<>>
       /\ \E i \in 1..Len(result) :
             result[i] \in AnswerMarkers \/ result[i] \notin Whitespace

C36_Witness ==
    /\ pc = "returned"
    /\ max_turns = 2
    /\ llm_calls = 2
    /\ Len(tool_calls) = 2
    /\ final_response_parts = <<<<"\n", MaxTurnsNoTextMarker>>>>
    /\ result = <<MaxTurnsNoTextMarker>>

\* C39: a workflow the configuration holds has max_conversation_turns >= 1,
\* and a query that returned on a set-up engine has made at least one LLM
\* call (the statement the code contradicts: the validation only looks for
\* the key, and with 0 turns the loop body never runs).
C39_AtLeastOneLLMCall ==
    /\ max_turns >= 1
    /\ (setup_state = "ok" /\ pc = "returned") => llm_calls >= 1

\* the tool named n is among the function declarations the query's LLM calls are given
DeclaredToLLM(n) == \E i \in 1..Len(llm_tool_config) : llm_tool_config[i] = n

\* C37: on a set-up engine, every tool call_tool is invoked on during a query
\* is among the function declarations given to the LLM for that query, also
\* when a service lists the tool only after setup (the statement the code
\* contradicts: resolution asks the services for their tools anew and never
\* consults the declarations).
C37_CalledToolsDeclared ==
    setup_state = "ok"
    => \A k \in 1..Len(tool_calls) : DeclaredToLLM(tool_calls[k].tool)

\* a process_user_query call is running, suspended at one of its awaits
Running == pc \in {"await_llm", "resolve", "call_tool"}

\* C32: when every awaited LLM call and service call returns or fails, every
\* process_user_query call on a set-up engine eventually returns, whatever
\* the model answers (the statement the code contradicts when get_tools
\* raises during resolution: the call ends by raising, it does not return).
C32_QueryEventuallyReturns == (setup_state = "ok" /\ Running) ~> pc = "returned"

\* C33: in cli.main, once the engine is constructed, engine.close() is called
\* exactly once before main returns, whichever way main ends (single query
\* done, chat loop quit, a query that raised, setup_services failing at a
\* later service): not before the finally clause, never twice, and the call
\* leaves no connection context open.
C33_CloseExactlyOnce ==
    /\ [](cli_pc = "done" => (close_calls = 1 /\ exit_stack = <<>>))
    /\ [](cli_pc # "done" => close_calls = 0)
    /\ [][close_calls' # close_calls
            => (cli_pc = "finally" /\ cli_pc' = "done"
                /\ close_calls' = close_calls + 1 /\ exit_stack' = <<>>)]_vars
    /\ [][cli_pc = "done" => UNCHANGED <<cli_pc, close_calls, exit_stack>>]_vars

C33_Witness ==
    /\ cli_pc = "done"
    /\ close_calls = 1
    /\ setup_state = "failed"
    /\ setup_failed_at = 2
    /\ Len(mcp_services) = 1
    /\ exit_stack = <<>>

====
